---- MODULE Spec2Model ----
(***************************************************************************)
(* Model of multi-md5.py: the batched, thread-pooled MD5 manifest          *)
(* generator and verifier.                                                 *)
(*                                                                         *)
(* One orchestrator thread (the main thread) submits hashing tasks to a    *)
(* ThreadPoolExecutor in batches and collects their results with           *)
(* as_completed; max_workers worker threads take tasks from the pool's     *)
(* FIFO work queue.  A task is identified by the index of its entry in the *)
(* input list (the manifest entries in verify mode, the enumerated file    *)
(* paths in generate mode).                                                *)
(***************************************************************************)
EXTENDS Integers, Sequences, FiniteSets, TLC

\* ------------------------------------------------------------------ bounds
MaxWorkers == 2        \* worker counts explored: 1..MaxWorkers
MaxEntries == 3        \* longest input list explored for every worker count
MaxFaulty == 2         \* at most this many entries are not plain matching files
                       \* (one in a list of MaxEntries entries)
MaxExtra == 1          \* files under the directory that the manifest does not list
MaxChars == 7          \* characters of a checksum file
MaxNodes == 4          \* files and directories below the root of a walked tree
MaxBatch == 2          \* batch_size handed to batch_os_walk

\* ------------------------------------------------------- program constants
GenMultiplier == 20    \* batch_size = max_workers * 20   (generate)
VerMultiplier == 4     \* batch_size = max_workers * 4    (verify)

\* ------------------------------------------------------------- the data
\* What open() and read() of a file yield when a worker hashes it: the digest
\* of its content, "Missing" (open() raises FileNotFoundError), "Unreadable"
\* (open() raises another exception, e.g. PermissionError, IsADirectoryError)
\* or "ReadError" (the file opens and f.read() raises, e.g. an I/O error).
Digests == {"d1", "d2"}
Raising == {"Unreadable", "ReadError"}
Outcomes == Digests \cup {"Missing"} \cup Raising
NoneDigest == "None"   \* Python's None as a digest value
NoPass == "None"       \* pass_through=None in generate mode

VARIABLES
    mode,             \* "generate" | "verify"            (args.verify)
    max_workers,      \* args.workers
    keep_going,       \* args.keepgoing
    sigint,           \* whether the user interrupts the run (Ctrl-C)
    inputs,           \* verify: checksums; generate: the paths batch_os_walk yields
    disk,             \* file -> Outcomes, what hashing the file meets
    pc,               \* position of the orchestrator (main thread)
    ndx,              \* 0-based offset of the current batch in inputs
    si,               \* entries of the current batch the submit loop has handled
    ci,               \* futures the loop of the interrupt handler has passed
    cur,              \* the task whose future the collecting loop has in hand
    fut,              \* task -> state of its Future
    queue,            \* the executor's FIFO work queue (task ids)
    holding,          \* tasks a worker thread has taken off the queue and not started
    executing,        \* tasks a worker thread is executing (at most max_workers)
    threads,          \* worker threads the executor has started
    idle,             \* value of the executor's _idle_semaphore
    releasing,        \* threads that are through with an item and have not yet
                      \* released the semaphore
    stray,            \* the thread the main thread does not hold like the others:
                      \* [kind, at], at = 0 waiting for an item, -1 releasing,
                      \* otherwise the task it holds or executes
    futures,          \* the local name futures / future_to_file: [bound, fs]
    snap,             \* as_completed: futures found finished at its start, not yet yielded
    collected,        \* futures the for-loops over as_completed have received so far
    compQ,            \* as_completed: futures finished since, in completion order
    results,          \* verify: the ledger
    outfile,          \* generate: the lines printed to the manifest
    worker_log,       \* the records the worker threads have handed to the module
                      \* logger: << level, task >>
    leaving,          \* why the with-block is being left
    interrupted,      \* a KeyboardInterrupt has been delivered
    pending_at_abort,     \* history: tasks submitted but not started when the run aborted
    pending_at_interrupt, \* history: the same at the moment of the interrupt
    exit_status,      \* process exit status, -1 while running
    exit_path,        \* how the process ended
    main,             \* what main() did with the ledger after the run
    manifest,         \* the text of the checksum file, a sequence of characters
    checksums,        \* what read_checksum_file made of it
    runs,             \* history: how often a worker has started each task
    done_order,       \* history: the tasks in the order their calls ended
    early,            \* history: the futures found finished when as_completed started
    taken,            \* history: the tasks in the order the orchestrator collected them
    walk_in,          \* batch_os_walk: the tree, the root's path, batch_size, skip_hidden
    walk              \* batch_os_walk: the generator's position and what it has yielded

vars == << mode, max_workers, keep_going, sigint, inputs, disk, pc, ndx, si, ci, cur, fut, queue,
           holding, executing, threads, idle, releasing, stray, futures, snap, collected,
           compQ, results, outfile, worker_log, leaving, interrupted, pending_at_abort,
           pending_at_interrupt, exit_status, exit_path, main, manifest, checksums, runs,
           done_order, early, taken, walk_in, walk >>

\* What is recorded of the pool's past.
hist_vars == << runs, done_order, early, taken >>

\* The checksum file and the directory walk.
aux_vars == << manifest, checksums, walk_in, walk >>

\* The state of the pool and of the orchestrator (no manifest text, no tree).
run_vars == << mode, max_workers, keep_going, sigint, inputs, disk, pc, ndx, si, ci, cur, fut,
               queue, holding, executing, threads, idle, releasing, stray, futures, snap,
               collected, compQ, results, outfile, worker_log, leaving, interrupted,
               pending_at_abort, pending_at_interrupt, exit_status, exit_path, main >>

Tasks == 1..Len(inputs)

Min(S) == CHOOSE x \in S : \A y \in S : x <= y

\* ----------------------------------------------------------- the hasher
\* calculate_file_checksum(file_path, read_size, pass_through): the triple it
\* returns, or the exception it lets escape.
calculate_file_checksum(d, file_path, pass_through) ==
    IF d[file_path] \in Raising
    THEN [raised |-> TRUE, file_path |-> file_path, checksum |-> NoneDigest,
          pass_through |-> pass_through]
    ELSE [raised |-> FALSE, file_path |-> file_path,
          checksum |-> IF d[file_path] = "Missing" THEN NoneDigest ELSE d[file_path],
          pass_through |-> pass_through]

\* The result task t's future holds once the task has run.
ResultOf_FirstTask(t) ==
    calculate_file_checksum(disk, inputs[Min(Tasks)].file, inputs[Min(Tasks)].expected)

ResultOf(t) == calculate_file_checksum(disk, inputs[t].file, inputs[t].expected)

\* --------------------------------------------------------------- batching
\* batch_size of the run.
BatchSize(m, w) == IF m = "generate" THEN w * GenMultiplier ELSE w * VerMultiplier

batch_size == BatchSize(mode, max_workers)

\* Mutant of ChunkEnd: the slice takes one element too many.
ChunkEnd_OffByOne(i, n, l) == IF i + n + 1 < l THEN i + n + 1 ELSE l

\* batch(iterable, n): the chunk that starts at offset i is iterable[i : min(i+n, l)].
ChunkEnd(i, n, l) == IF i + n < l THEN i + n ELSE l

\* Task ids of the current batch, and of the part the submit loop has handled.
Chunk == (ndx + 1) .. ChunkEnd(ndx, batch_size, Len(inputs))
ChunkLen == ChunkEnd(ndx, batch_size, Len(inputs)) - ndx

\* filename.endswith(".md5") or filename.endswith(".md5sum")
IsManifestName(item) == item.md5ext

\* ------------------------------------------------- the checksum file
\* The characters the checksum file is made of: the comment marker, a blank,
\* a character of a digest or of a path, and the newline.
Chars == {"#", " ", "a", "\n"}

\* The white space str.split() splits at.
IsSpace(c) == c \in {" ", "\n"}

\* Length of the first line of text, its newline included when it has one.
RECURSIVE LineLen(_)
LineLen(text) ==
    IF text = << >> THEN 0
    ELSE IF Head(text) = "\n" THEN 1 ELSE 1 + LineLen(Tail(text))

\* file.readlines(): the lines of text, each one keeping its newline.
RECURSIVE ReadLines(_)
ReadLines(text) ==
    IF text = << >> THEN << >>
    ELSE << SubSeq(text, 1, LineLen(text)) >>
         \o ReadLines(SubSeq(text, LineLen(text) + 1, Len(text)))

\* line.startswith(c)
StartsWith(line, c) == Len(line) > 0 /\ line[1] = c

\* Length of the longest prefix of line without white space.
RECURSIVE WordLen(_)
WordLen(line) ==
    IF line = << >> \/ IsSpace(Head(line)) THEN 0 ELSE 1 + WordLen(Tail(line))

\* line.split(): the maximal runs of characters that are not white space.
RECURSIVE Split(_)
Split(line) ==
    IF line = << >> THEN << >>
    ELSE IF IsSpace(Head(line)) THEN Split(Tail(line))
    ELSE << SubSeq(line, 1, WordLen(line)) >>
         \o Split(SubSeq(line, WordLen(line) + 1, Len(line)))

\* The least index at which x occurs in lines.
FirstIndex(lines, x) == Min({ i \in 1..Len(lines) : lines[i] = x })

\* lines.remove(x): lines without the first occurrence of x.
Remove(lines, x) ==
    SubSeq(lines, 1, FirstIndex(lines, x) - 1)
    \o SubSeq(lines, FirstIndex(lines, x) + 1, Len(lines))

\* The for-loop of read_checksum_file from its i-th turn on: the list
\* iterator hands out lines[i] of the list as it is then, and the body removes
\* the line from that same list when it starts with the comment marker.
RECURSIVE SkipComments(_, _)
SkipComments(lines, i) ==
    IF i > Len(lines) THEN lines
    ELSE IF StartsWith(lines[i], "#")
         THEN SkipComments(Remove(lines, lines[i]), i + 1)
         ELSE SkipComments(lines, i + 1)

\* read_checksum_file(file) on a file with this text: the list of
\* (digest, path) pairs, or the IndexError of line.split()[0] / [1].
read_checksum_file(text) ==
    LET kept == SkipComments(ReadLines(text), 1) IN
    IF \E i \in 1..Len(kept) : Len(Split(kept[i])) < 2
    THEN [ raised |-> TRUE, checksums |-> << >> ]
    ELSE [ raised |-> FALSE,
           checksums |-> [ i \in 1..Len(kept) |->
                             << Split(kept[i])[1], Split(kept[i])[2] >> ] ]

\* The sequences over S of length at most n.
SeqUpTo(S, n) == UNION { [1..k -> S] : k \in 0..n }

\* ------------------------------------------------------ the directory
\* No tree to walk: a root without entries.
NoTree == [ nodes |-> << >>, root |-> << >>, batch_size |-> 1, skip_hidden |-> TRUE ]

\* batch_os_walk before its first step: os.walk has the root to visit.
WalkStart == [ pos |-> "walking", todo |-> << 0 >>, files |-> << >>, dir |-> 0,
               file_batch |-> << >>, yielded |-> << >>, visited |-> {} ]

\* An entry of the tree is numbered i in 1..Len(walk_in.nodes); 0 is the root.
\* walk_in.nodes[i] gives its parent, whether it is a directory, and whether
\* its name starts with '.'.  A name is the entry's number with that mark;
\* a path is the sequence of names os.sep separates.
Nodes == 1..Len(walk_in.nodes)

NameOf(i) == [ id |-> i, dot |-> walk_in.nodes[i].dot ]

\* os.path.join(root, file), root being the path of the entry's parent.
RECURSIVE PathOf(_)
PathOf(i) ==
    IF i = 0 THEN walk_in.root
    ELSE Append(PathOf(walk_in.nodes[i].parent), NameOf(i))

\* is_hidden(path): some part of the path starts with '.'.
is_hidden(path) == \E k \in 1..Len(path) : path[k].dot

\* The entries of directory d that os.walk lists as dirs (isdir) or as files.
Listing(d, isdir) ==
    SelectSeq([ i \in Nodes |-> i ],
              LAMBDA i : walk_in.nodes[i].parent = d /\ walk_in.nodes[i].dir = isdir)

\* dirs[:] = [d for d in dirs if not d.startswith('.')] when skip_hidden.
Prune_Nothing(dirs) == dirs

Prune(dirs) ==
    IF walk_in.skip_hidden
    THEN SelectSeq(dirs, LAMBDA i : ~walk_in.nodes[i].dot)
    ELSE dirs

\* not skip_hidden or not is_hidden(file_path)
Accepts(file_path) == ~walk_in.skip_hidden \/ ~is_hidden(file_path)

\* len(file_batch) == batch_size
BatchFull_OneLate(file_batch) == Len(file_batch) = walk_in.batch_size + 1

BatchFull(file_batch) == Len(file_batch) = walk_in.batch_size

\* The trees of n entries: an entry's parent is the root or a directory
\* numbered before it.
Trees(n) ==
    { t \in [ 1..n -> [ parent : 0..(n - 1), dir : BOOLEAN, dot : BOOLEAN ] ] :
        \A i \in 1..n : /\ t[i].parent < i
                        /\ t[i].parent # 0 => t[t[i].parent].dir }

\* ------------------------------------------------------------ the inputs
\* What can be wrong with an entry: in verify mode the file's content differs
\* from the manifest's digest, the file is gone, cannot be opened or cannot
\* be read; in generate mode the file is gone, cannot be opened, cannot be
\* read, or is itself a manifest (its name ends with .md5 / .md5sum).
FaultKinds(m) == IF m = "verify" THEN {"d2", "Missing"} \cup Raising
                 ELSE {"Missing", "md5"} \cup Raising

\* The assignments of a fault to at most MaxFaulty of the positions P.
FaultMaps(m, P) ==
    UNION { [S -> FaultKinds(m)] : S \in { T \in SUBSET P : Cardinality(T) <= MaxFaulty } }

\* The input list of n entries with the faults g: entry i is the file i; in
\* verify mode every manifest line carries the digest "d1".
InputsOf(m, n, g) ==
    [ i \in 1..n |-> [ file     |-> i,
                       expected |-> IF m = "verify" THEN "d1" ELSE NoPass,
                       md5ext   |-> (i \in DOMAIN g /\ g[i] = "md5") ] ]

DiskOf(n, g) ==
    [ i \in 1..n |-> IF i \in DOMAIN g /\ g[i] # "md5" THEN g[i] ELSE "d1" ]

\* Every worker thread is held by the executor and known to the interpreter.
NoStray == [ kind |-> "none", at |-> 0 ]

\* The state at the start, main() being at p: everything but the inputs.
InitRunAt(p) ==
    /\ pc = p
    /\ ndx = 0
    /\ si = 0
    /\ ci = 0
    /\ cur = 0
    /\ fut = [ t \in Tasks |-> "none" ]
    /\ queue = << >>
    /\ holding = {}
    /\ executing = {}
    /\ threads = 0
    /\ idle = 0
    /\ releasing = 0
    /\ stray = NoStray
    /\ futures = [ bound |-> FALSE, fs |-> {} ]
    /\ snap = {}
    /\ collected = {}
    /\ compQ = << >>
    /\ results = << >>
    /\ outfile = << >>
    /\ worker_log = {}
    /\ leaving = "none"
    /\ interrupted = FALSE
    /\ pending_at_abort = {}
    /\ pending_at_interrupt = {}
    /\ exit_status = -1
    /\ exit_path = "running"
    /\ main = [ got_ledger |-> FALSE, reconciled |-> FALSE, ledger |-> << >>,
                there_was_an_error |-> FALSE, warn_manifest |-> FALSE,
                warn_directory |-> FALSE ]
    /\ runs = [ t \in Tasks |-> 0 ]
    /\ done_order = << >>
    /\ early = {}
    /\ taken = << >>

\* The state when the batch loop is entered.
InitRun == InitRunAt("next_batch")

\* Every run over at most MaxEntries entries: of MaxEntries entries with at
\* most one fault, of fewer with at most MaxFaulty.
InitSmall ==
    /\ mode \in {"generate", "verify"}
    /\ max_workers \in 1..MaxWorkers
    /\ keep_going \in (IF mode = "verify" THEN BOOLEAN ELSE {FALSE})
    /\ sigint = TRUE
    /\ \E n \in 0..MaxEntries : \E g \in FaultMaps(mode, 1..n) :
          /\ n = MaxEntries => Cardinality(DOMAIN g) <= 1
          /\ inputs = InputsOf(mode, n, g)
          /\ disk = DiskOf(n, g)
    /\ InitRun

\* The fault maps of a run of one worker over n entries that fill a batch:
\* in verify mode at most one fault, at the first or the last entry; in
\* generate mode every entry is a manifest file but the first of the run and
\* the entries from the last of the first batch on.
FullBatchFaults(m, n) ==
    IF m = "verify"
    THEN { h \in FaultMaps(m, {1, n}) : Cardinality(DOMAIN h) <= 1 }
    ELSE { [ i \in 2..(BatchSize(m, 1) - 1) |-> "md5" ] }

\* Runs of one worker whose input fills one batch exactly, or one batch and
\* one more entry.
InitFullBatch ==
    /\ mode \in {"generate", "verify"}
    /\ max_workers = 1
    /\ keep_going \in (IF mode = "verify" THEN BOOLEAN ELSE {FALSE})
    /\ sigint = TRUE
    /\ \E n \in { BatchSize(mode, 1), BatchSize(mode, 1) + 1 } :
       \E g \in FullBatchFaults(mode, n) :
          /\ inputs = InputsOf(mode, n, g)
          /\ disk = DiskOf(n, g)
    /\ InitRun

\* The checksum file before main() has read it.
NotRead == [ read |-> FALSE, raised |-> FALSE, checksums |-> << >> ]

\* A run whose input list is given: the file is not read, no tree is walked.
InputsGiven ==
    /\ manifest = << >>
    /\ checksums = NotRead
    /\ walk_in = NoTree
    /\ walk = WalkStart

Init == (InitSmall \/ InitFullBatch) /\ InputsGiven

\* --------------------------------------------------------- the worker pool
Done(t) == fut[t] \in {"finished", "raised"}

\* Tasks handed to the pool that no worker has started yet.
Pending == { t \in Tasks : fut[t] = "pending" }

\* Mutant of FreeWorker: a thread per work item, whatever max_workers is.
FreeWorker_Unbounded == TRUE

\* A thread of the pool waits for a work item in work_queue.get(): the
\* threads the executor has started (never more than max_workers) handle one
\* item at a time.
FreeWorker == Cardinality(holding) + Cardinality(executing) + releasing < threads

\* The stray thread is the one that waits, or another one is.
StrayFree == stray.kind # "none" /\ stray.at = 0

OtherFree ==
    /\ FreeWorker
    /\ StrayFree => Cardinality(holding) + Cardinality(executing) + releasing + 1 < threads

\* _worker: work_queue.get(block=True) hands a thread the next work item.
WorkerTake ==
    /\ pc # "done"
    /\ queue # << >>
    /\ \E own \in BOOLEAN :
         /\ IF own THEN StrayFree ELSE OtherFree
         /\ stray' = IF own THEN [stray EXCEPT !.at = Head(queue)] ELSE stray
    /\ queue' = Tail(queue)
    /\ holding' = holding \cup {Head(queue)}
    /\ UNCHANGED << mode, max_workers, keep_going, sigint, inputs, disk, pc, ndx, si, ci,
                    cur, fut, executing, threads, idle, releasing, futures, snap,
                    collected, compQ, results, outfile, worker_log, leaving, interrupted,
                    pending_at_abort, pending_at_interrupt, exit_status, exit_path, main,
                    manifest, checksums, runs, done_order, early, taken, walk_in, walk >>

\* _WorkItem.run: future.set_running_or_notify_cancel().  The item of a
\* future that was cancelled is dropped; otherwise the future is running and
\* calculate_file_checksum is called.
WorkerRun(t) ==
    /\ pc # "done"
    /\ t \in holding
    /\ holding' = holding \ {t}
    /\ IF fut[t] = "cancelled"
       THEN /\ releasing' = releasing + 1
            /\ stray' = IF stray.at = t THEN [stray EXCEPT !.at = -1] ELSE stray
            /\ UNCHANGED << fut, executing, runs >>
       ELSE /\ fut' = [fut EXCEPT ![t] = "running"]
            /\ executing' = executing \cup {t}
            /\ runs' = [runs EXCEPT ![t] = @ + 1]
            /\ UNCHANGED << releasing, stray >>
    /\ UNCHANGED << mode, max_workers, keep_going, sigint, inputs, disk, pc, ndx, si, ci,
                    cur, queue, threads, idle, futures, snap, collected, compQ, results,
                    outfile, worker_log, leaving, interrupted, pending_at_abort,
                    pending_at_interrupt, exit_status, exit_path, main, manifest,
                    checksums, done_order, early, taken, walk_in, walk >>

\* The record calculate_file_checksum hands to the module logger, which all
\* threads share: logger.debug("Processing ...") once the file is open,
\* logger.warning("File Not Found: ...") when it does not exist.  A file that
\* open() refuses for another reason ("Unreadable": no permission, a
\* directory) leaves no record; a file that opens and cannot be read
\* ("ReadError") has its DEBUG record before f.read() raises.
LogRecord(t) ==
    << IF disk[inputs[t].file] = "Missing" THEN "WARNING" ELSE "DEBUG", t >>

Logged(t) == \E r \in worker_log : r[2] = t

\* calculate_file_checksum, lines 21-22 or 26-27: open() and the log record.
WorkerLog(t) ==
    /\ pc # "done"
    /\ t \in executing
    /\ disk[inputs[t].file] # "Unreadable"
    /\ ~Logged(t)
    /\ worker_log' = worker_log \cup {LogRecord(t)}
    /\ UNCHANGED << mode, max_workers, keep_going, sigint, inputs, disk, pc, ndx, si, ci,
                    cur, fut, queue, holding, executing, threads, idle, releasing, stray,
                    futures, snap, collected, compQ, results, outfile, leaving,
                    interrupted, pending_at_abort, pending_at_interrupt, exit_status,
                    exit_path, main, manifest, checksums, runs, done_order, early, taken,
                    walk_in, walk >>

\* The positions of the main thread at which as_completed has its waiter
\* installed on the futures of the batch.
Collecting == {"collect", "body", "compare"}

\* Mutant of WorkerFinish: the worker prints the line itself.
WorkerFinish_WritesSink(t) ==
    /\ pc # "done"
    /\ t \in executing
    /\ disk[inputs[t].file] = "Unreadable" \/ Logged(t)
    /\ fut' = [fut EXCEPT ![t] = IF ResultOf(t).raised THEN "raised" ELSE "finished"]
    /\ executing' = executing \ {t}
    /\ releasing' = releasing + 1
    /\ stray' = IF stray.at = t THEN [stray EXCEPT !.at = -1] ELSE stray
    /\ compQ' = IF pc \in Collecting /\ t \in futures.fs THEN Append(compQ, t) ELSE compQ
    /\ done_order' = Append(done_order, t)
    /\ outfile' = IF mode = "generate"
                  THEN Append(outfile, << ResultOf(t).checksum, ResultOf(t).file_path >>)
                  ELSE outfile
    /\ UNCHANGED << mode, max_workers, keep_going, sigint, inputs, disk, pc, ndx, si, ci,
                    cur, queue, holding, threads, idle, futures, snap, collected,
                    results, worker_log, leaving, interrupted, pending_at_abort,
                    pending_at_interrupt, exit_status, exit_path, main, manifest,
                    checksums, runs, early, taken, walk_in, walk >>

\* Mutant of WorkerFinish: the work item goes back on the queue.
WorkerFinish_Requeue(t) ==
    /\ pc # "done"
    /\ t \in executing
    /\ disk[inputs[t].file] = "Unreadable" \/ Logged(t)
    /\ fut' = [fut EXCEPT ![t] = IF ResultOf(t).raised THEN "raised" ELSE "finished"]
    /\ executing' = executing \ {t}
    /\ releasing' = releasing + 1
    /\ stray' = IF stray.at = t THEN [stray EXCEPT !.at = -1] ELSE stray
    /\ compQ' = IF pc \in Collecting /\ t \in futures.fs THEN Append(compQ, t) ELSE compQ
    /\ done_order' = Append(done_order, t)
    /\ queue' = Append(queue, t)
    /\ UNCHANGED << mode, max_workers, keep_going, sigint, inputs, disk, pc, ndx, si, ci,
                    cur, holding, threads, idle, futures, snap, collected, results,
                    outfile, worker_log, leaving, interrupted, pending_at_abort,
                    pending_at_interrupt, exit_status, exit_path, main, manifest,
                    checksums, runs, early, taken, walk_in, walk >>

\* A worker's call of calculate_file_checksum ends: the future gets its
\* result or its exception, and a waiter of as_completed is told.  The thread
\* has still to release the idle semaphore.
WorkerFinish(t) ==
    /\ pc # "done"
    /\ t \in executing
    /\ disk[inputs[t].file] = "Unreadable" \/ Logged(t)
    /\ fut' = [fut EXCEPT ![t] = IF ResultOf(t).raised THEN "raised" ELSE "finished"]
    /\ executing' = executing \ {t}
    /\ releasing' = releasing + 1
    /\ stray' = IF stray.at = t THEN [stray EXCEPT !.at = -1] ELSE stray
    /\ compQ' = IF pc \in Collecting /\ t \in futures.fs THEN Append(compQ, t) ELSE compQ
    /\ done_order' = Append(done_order, t)
    /\ UNCHANGED << mode, max_workers, keep_going, sigint, inputs, disk, pc, ndx, si, ci,
                    cur, queue, holding, threads, idle, futures, snap, collected,
                    results, outfile, worker_log, leaving, interrupted, pending_at_abort,
                    pending_at_interrupt, exit_status, exit_path, main, manifest,
                    checksums, runs, early, taken, walk_in, walk >>

\* _worker, after work_item.run(): executor._idle_semaphore.release(), and
\* the thread goes back to work_queue.get().
WorkerRelease ==
    /\ pc # "done"
    /\ \E own \in BOOLEAN :
         /\ IF own THEN stray.kind # "none" /\ stray.at = -1
                   ELSE releasing > (IF stray.at = -1 THEN 1 ELSE 0)
         /\ stray' = IF own THEN [stray EXCEPT !.at = 0] ELSE stray
    /\ releasing' = releasing - 1
    /\ idle' = idle + 1
    /\ UNCHANGED << mode, max_workers, keep_going, sigint, inputs, disk, pc, ndx, si, ci,
                    cur, fut, queue, holding, executing, threads, futures, snap,
                    collected, compQ, results, outfile, worker_log, leaving, interrupted,
                    pending_at_abort, pending_at_interrupt, exit_status, exit_path, main,
                    manifest, checksums, runs, done_order, early, taken, walk_in, walk >>

\* The threads that are waited for have left their loop, a stray thread of
\* one of the kinds not being waited for: a thread leaves when it reads the
\* None that shutdown() put on the queue behind the work items.
AllGone(kinds) ==
    LET apart == stray.kind \in kinds IN
    \/ threads = (IF apart THEN 1 ELSE 0)
    \/ /\ queue = << >>
       /\ (holding \cup executing) \subseteq (IF apart THEN {stray.at} ELSE {})
       /\ releasing = (IF apart /\ stray.at = -1 THEN 1 ELSE 0)

\* ------------------------------------------------------- the orchestrator
\* The for-loop over the batches asks for the next batch: batch(checksums,
\* batch_size) in verify mode, batch_os_walk(...) in generate mode, where
\* futures = [] follows.  With no batch left the with-block ends.
NextBatch ==
    /\ pc = "next_batch"
    /\ IF ndx < Len(inputs)
       THEN /\ pc' = "submit"
            /\ si' = 0
            /\ futures' = IF mode = "generate" THEN [bound |-> TRUE, fs |-> {}] ELSE futures
            /\ UNCHANGED leaving
       ELSE /\ pc' = "shutdown"
            /\ leaving' = "normal"
            /\ UNCHANGED << si, futures >>
    /\ UNCHANGED << mode, max_workers, keep_going, sigint, inputs, disk, ndx, ci, cur,
                    fut, queue, holding, executing, threads, idle, releasing, stray,
                    snap, collected, compQ, results, outfile, worker_log, interrupted,
                    pending_at_abort, pending_at_interrupt, exit_status, exit_path, main,
                    manifest, checksums, runs, done_order, early, taken, walk_in, walk >>

\* Whether the submit loop hands entry t to the pool.
Submits_Everything(t) == TRUE

Submits(t) == mode = "verify" \/ ~IsManifestName(inputs[t])

\* One turn of the submit loop: the warning for a manifest file, or the
\* call of executor.submit(calculate_file_checksum, ...) as far as
\* self._work_queue.put(w): the future exists and its work item is queued.
SubmitOne ==
    /\ pc = "submit"
    /\ si < ChunkLen
    /\ LET t == ndx + si + 1 IN
         IF Submits(t)
         THEN /\ fut' = [fut EXCEPT ![t] = "pending"]
              /\ queue' = Append(queue, t)
              /\ pc' = "adjust"
              /\ si' = si
         ELSE /\ UNCHANGED << fut, queue, pc >>
              /\ si' = si + 1
    /\ UNCHANGED << mode, max_workers, keep_going, sigint, inputs, disk, ndx, ci, cur,
                    holding, executing, threads, idle, releasing, stray, futures, snap,
                    collected, compQ, results, outfile, worker_log, leaving, interrupted,
                    pending_at_abort, pending_at_interrupt, exit_status, exit_path, main,
                    manifest, checksums, runs, done_order, early, taken, walk_in, walk >>

\* Where the main thread stands when submit() has returned: in verify mode
\* the future goes into the dict the comprehension is building; in generate
\* mode futures.append is still to come.
SubmitReturns ==
    /\ pc' = IF mode = "generate" THEN "append" ELSE "submit"
    /\ si' = IF mode = "generate" THEN si ELSE si + 1

\* executor.submit, self._adjust_thread_count(): nothing more when the idle
\* semaphore can be taken or max_workers threads exist; otherwise t.start()
\* starts a worker thread, which the executor does not hold yet.
AdjustThreadCount ==
    /\ pc = "adjust"
    /\ IF idle > 0
       THEN /\ idle' = idle - 1
            /\ UNCHANGED << threads, stray >>
            /\ SubmitReturns
       ELSE IF threads < max_workers
       THEN /\ threads' = threads + 1
            /\ stray' = [ kind |-> "starting", at |-> 0 ]
            /\ pc' = "register"
            /\ UNCHANGED << idle, si >>
       ELSE /\ UNCHANGED << idle, threads, stray >>
            /\ SubmitReturns
    /\ UNCHANGED << mode, max_workers, keep_going, sigint, inputs, disk, ndx, ci, cur,
                    fut, queue, holding, executing, releasing, futures, snap, collected,
                    compQ, results, outfile, worker_log, leaving, interrupted,
                    pending_at_abort, pending_at_interrupt, exit_status, exit_path, main,
                    manifest, checksums, runs, done_order, early, taken, walk_in, walk >>

\* executor.submit, after t.start(): self._threads.add(t) and
\* _threads_queues[t] = self._work_queue; submit() returns the future.
RegisterThread ==
    /\ pc = "register"
    /\ stray' = NoStray
    /\ SubmitReturns
    /\ UNCHANGED << mode, max_workers, keep_going, sigint, inputs, disk, ndx, ci, cur,
                    fut, queue, holding, executing, threads, idle, releasing, futures,
                    snap, collected, compQ, results, outfile, worker_log, leaving,
                    interrupted, pending_at_abort, pending_at_interrupt, exit_status,
                    exit_path, main, manifest, checksums, runs, done_order, early, taken,
                    walk_in, walk >>

\* generate: futures.append(...) of the future submit() returned.
AppendFuture ==
    /\ pc = "append"
    /\ futures' = [futures EXCEPT !.fs = @ \cup {ndx + si + 1}]
    /\ si' = si + 1
    /\ pc' = "submit"
    /\ UNCHANGED << mode, max_workers, keep_going, sigint, inputs, disk, ndx, ci, cur,
                    fut, queue, holding, executing, threads, idle, releasing, stray,
                    snap, collected, compQ, results, outfile, worker_log, leaving,
                    interrupted, pending_at_abort, pending_at_interrupt, exit_status,
                    exit_path, main, manifest, checksums, runs, done_order, early, taken,
                    walk_in, walk >>

\* verify: the comprehension is through with the batch and its dict is bound
\* to future_to_file.
BindFutures ==
    /\ pc = "submit"
    /\ mode = "verify"
    /\ si = ChunkLen
    /\ futures' = [bound |-> TRUE, fs |-> Chunk]
    /\ pc' = "as_completed"
    /\ UNCHANGED << mode, max_workers, keep_going, sigint, inputs, disk, ndx, si, ci,
                    cur, fut, queue, holding, executing, threads, idle, releasing, stray,
                    snap, collected, compQ, results, outfile, worker_log, leaving,
                    interrupted, pending_at_abort, pending_at_interrupt, exit_status,
                    exit_path, main, manifest, checksums, runs, done_order, early, taken,
                    walk_in, walk >>

\* The for-loop asks as_completed for its first future: as_completed notes
\* the futures already finished and installs its waiter on the others.  Over
\* no future at all the loop is over at once.
StartCollect ==
    /\ \/ pc = "as_completed"
       \/ pc = "submit" /\ mode = "generate" /\ si = ChunkLen
    /\ snap' = { t \in futures.fs : Done(t) }
    /\ compQ' = << >>
    /\ early' = early \cup snap'
    /\ IF futures.fs = {}
       THEN /\ pc' = "next_batch"
            /\ ndx' = ChunkEnd(ndx, batch_size, Len(inputs))
       ELSE /\ pc' = "collect"
            /\ ndx' = ndx
    /\ UNCHANGED << mode, max_workers, keep_going, sigint, inputs, disk, si, ci, cur,
                    fut, queue, holding, executing, threads, idle, releasing, stray,
                    futures, collected, results, outfile, worker_log, leaving,
                    interrupted, pending_at_abort, pending_at_interrupt, exit_status,
                    exit_path, main, manifest, checksums, runs, done_order, taken,
                    walk_in, walk >>

\* The future as_completed may yield next: while futures that were finished
\* at its start are left, any of them (they are popped from a set), then the
\* futures finished since, in completion order.
Yieldable_Mixed ==
    snap \cup (IF compQ # << >> THEN {Head(compQ)} ELSE {})

Yieldable ==
    IF snap # {} THEN snap
    ELSE IF compQ # << >> THEN {Head(compQ)} ELSE {}

\* as_completed yields the future of task t to the for-loop.
Collect(t) ==
    /\ pc = "collect"
    /\ t \in Yieldable
    /\ snap' = snap \ {t}
    /\ compQ' = IF snap = {} THEN Tail(compQ) ELSE compQ
    /\ collected' = collected \cup {t}
    /\ taken' = Append(taken, t)
    /\ cur' = t
    /\ pc' = "body"
    /\ UNCHANGED << mode, max_workers, keep_going, sigint, inputs, disk, ndx, si, ci,
                    fut, queue, holding, executing, threads, idle, releasing, stray,
                    futures, results, outfile, worker_log, leaving, interrupted,
                    pending_at_abort, pending_at_interrupt, exit_status, exit_path, main,
                    manifest, checksums, runs, done_order, early, walk_in, walk >>

\* computed digest differs from the expected one
Mismatch(r) == r.pass_through # r.checksum

\* Mutant of Raises: a mismatch stops the run whatever keep_going is.
Raises_IgnoresKeepGoing(t) ==
    IF fut[t] = "raised" THEN "task_error"
    ELSE IF mode = "verify" /\ Mismatch(ResultOf(t)) THEN "mismatch"
    ELSE "none"

\* Mutant of Raises: a mismatch never stops the run.
Raises_NeverOnMismatch(t) == IF fut[t] = "raised" THEN "task_error" ELSE "none"

\* Why the body of the collecting loop leaves the with-block on the result of
\* task t, "none" when it does not.
Raises(t) ==
    IF fut[t] = "raised" THEN "task_error"
    ELSE IF mode = "verify" /\ Mismatch(ResultOf(t)) /\ ~keep_going THEN "mismatch"
    ELSE "none"

\* The for-loop over as_completed goes on: to its next turn, or, every future
\* of the batch being collected, to the next batch.
LoopOn ==
    IF futures.fs \subseteq collected
    THEN /\ pc' = "next_batch"
         /\ ndx' = ChunkEnd(ndx, batch_size, Len(inputs))
    ELSE /\ pc' = "collect"
         /\ ndx' = ndx

\* The body of the collecting loop down to the line that writes: the
\* exception future.result() hands on leaves the with-block as RuntimeError;
\* otherwise the ledger gets its entry (verify, line 130), or the line is
\* printed and the loop goes on (generate, line 99).
Body ==
    /\ pc = "body"
    /\ LET r == ResultOf(cur) IN
       IF Raises(cur) = "task_error"
       THEN /\ pc' = "shutdown"
            /\ leaving' = "task_error"
            /\ pending_at_abort' = Pending
            /\ UNCHANGED << results, outfile, ndx >>
       ELSE IF mode = "verify"
       THEN /\ results' = Append(results, << r.file_path, r.checksum, r.pass_through >>)
            /\ pc' = "compare"
            /\ UNCHANGED << outfile, ndx, leaving, pending_at_abort >>
       ELSE /\ outfile' = Append(outfile, << r.checksum, r.file_path >>)
            /\ LoopOn
            /\ UNCHANGED << results, leaving, pending_at_abort >>
    /\ UNCHANGED << mode, max_workers, keep_going, sigint, inputs, disk, si, ci, cur,
                    fut, queue, holding, executing, threads, idle, releasing, stray,
                    futures, snap, collected, compQ, worker_log, interrupted,
                    pending_at_interrupt, exit_status, exit_path, main, manifest,
                    checksums, runs, done_order, early, taken, walk_in, walk >>

\* verify, lines 131-136: the comparison; on a mismatch without keep_going
\* the ValueError leaves the with-block as RuntimeError.
Compare ==
    /\ pc = "compare"
    /\ IF Raises(cur) = "mismatch"
       THEN /\ pc' = "shutdown"
            /\ leaving' = "mismatch"
            /\ pending_at_abort' = Pending
            /\ ndx' = ndx
       ELSE /\ LoopOn
            /\ UNCHANGED << leaving, pending_at_abort >>
    /\ UNCHANGED << mode, max_workers, keep_going, sigint, inputs, disk, si, ci, cur,
                    fut, queue, holding, executing, threads, idle, releasing, stray,
                    futures, snap, collected, compQ, results, outfile, worker_log,
                    interrupted, pending_at_interrupt, exit_status, exit_path, main,
                    manifest, checksums, runs, done_order, early, taken, walk_in, walk >>

\* What a thread the executor holds may be doing: waiting for an item,
\* releasing the semaphore, or handling a task.
Activities ==
    (IF FreeWorker THEN {0} ELSE {}) \cup (IF releasing > 0 THEN {-1} ELSE {})
    \cup holding \cup executing

\* A KeyboardInterrupt reaches the main thread inside the try block, in a run
\* during which the user presses Ctrl-C.  While
\* the loops run it first leaves the with-block, whose exit waits for the
\* threads the executor holds: raised in submit() between t.start() and
\* self._threads.add(t), it leaves a thread the executor does not hold.
\* Raised while that exit is already waiting, it goes straight to the except
\* clause; when it comes out of the t.join() of a thread that is alive,
\* Thread._wait_for_tstate_lock releases the thread's lock and marks the
\* thread as stopped, so that nothing waits for that thread any more.
Interrupt ==
    /\ sigint
    /\ ~interrupted
    /\ pc \in {"next_batch", "submit", "adjust", "register", "append", "as_completed",
               "collect", "body", "compare", "shutdown"}
    /\ interrupted' = TRUE
    /\ leaving' = "interrupt"
    /\ pending_at_interrupt' = Pending
    /\ pc' = IF pc = "shutdown" THEN "handler" ELSE "shutdown"
    /\ IF pc = "register"
       THEN stray' = [stray EXCEPT !.kind = "unregistered"]
       ELSE IF pc = "shutdown"
       THEN \/ stray' = stray
            \/ \E a \in Activities : stray' = [ kind |-> "stopped", at |-> a ]
       ELSE stray' = stray
    /\ UNCHANGED << mode, max_workers, keep_going, sigint, inputs, disk, ndx, si, ci,
                    cur, fut, queue, holding, executing, threads, idle, releasing,
                    futures, snap, collected, compQ, results, outfile, worker_log,
                    pending_at_abort, exit_status, exit_path, main, manifest, checksums,
                    runs, done_order, early, taken, walk_in, walk >>

\* ThreadPoolExecutor.__exit__ = shutdown(wait=True) has joined the threads
\* in self._threads: the function returns (normal end), the RuntimeError goes
\* on to the top of the process, or the KeyboardInterrupt reaches its except
\* clause.
ShutdownDone ==
    /\ pc = "shutdown"
    /\ AllGone({"unregistered", "stopped"})
    /\ IF leaving = "normal"
       THEN /\ pc' = "returned"
            /\ UNCHANGED << exit_status, exit_path >>
       ELSE IF leaving = "interrupt"
       THEN /\ pc' = "handler"
            /\ UNCHANGED << exit_status, exit_path >>
       ELSE /\ pc' = "done"
            /\ exit_status' = 1
            /\ exit_path' = "RuntimeError"
    /\ UNCHANGED << mode, max_workers, keep_going, sigint, inputs, disk, ndx, si, ci,
                    cur, fut, queue, holding, executing, threads, idle, releasing, stray,
                    futures, snap, collected, compQ, results, outfile, worker_log,
                    leaving, interrupted, pending_at_abort, pending_at_interrupt, main,
                    manifest, checksums, runs, done_order, early, taken, walk_in, walk >>

\* future.cancel(): a future no worker has started becomes cancelled, any
\* other is left as it is.
Cancel(state) == IF state = "pending" THEN "cancelled" ELSE state

\* The k-th future of fs in the order of submission.
NthOf(fs, k) == CHOOSE t \in fs : Cardinality({ u \in fs : u < t }) = k - 1

\* except KeyboardInterrupt: one turn of `for future in futures:
\* future.cancel()`, the worker threads running on between the turns.
Handler ==
    /\ pc = "handler"
    /\ futures.bound
    /\ ci < Cardinality(futures.fs)
    /\ fut' = [fut EXCEPT ![NthOf(futures.fs, ci + 1)] = Cancel(@)]
    /\ ci' = ci + 1
    /\ UNCHANGED << mode, max_workers, keep_going, sigint, inputs, disk, pc, ndx, si,
                    cur, queue, holding, executing, threads, idle, releasing, stray,
                    futures, snap, collected, compQ, results, outfile, worker_log,
                    leaving, interrupted, pending_at_abort, pending_at_interrupt,
                    exit_status, exit_path, main, manifest, checksums, runs, done_order,
                    early, taken, walk_in, walk >>

\* The loop of the handler is over: sys.exit(1); with the local name still
\* unbound the loop has raised NameError instead.
HandlerExit ==
    /\ pc = "handler"
    /\ ~futures.bound \/ ci = Cardinality(futures.fs)
    /\ exit_path' = IF futures.bound THEN "sys.exit" ELSE "NameError"
    /\ exit_status' = 1
    /\ pc' = "exiting"
    /\ UNCHANGED << mode, max_workers, keep_going, sigint, inputs, disk, ndx, si, ci,
                    cur, fut, queue, holding, executing, threads, idle, releasing, stray,
                    futures, snap, collected, compQ, results, outfile, worker_log,
                    leaving, interrupted, pending_at_abort, pending_at_interrupt, main,
                    manifest, checksums, runs, done_order, early, taken, walk_in, walk >>

\* threading._shutdown joins the worker threads it knows to be alive, a
\* thread marked as stopped not being among them; then the process ends,
\* whatever that thread is doing.
InterpreterExit ==
    /\ pc = "exiting"
    /\ AllGone({"stopped"})
    /\ pc' = "done"
    /\ UNCHANGED << mode, max_workers, keep_going, sigint, inputs, disk, ndx, si, ci,
                    cur, fut, queue, holding, executing, threads, idle, releasing, stray,
                    futures, snap, collected, compQ, results, outfile, worker_log,
                    leaving, interrupted, pending_at_abort, pending_at_interrupt,
                    exit_status, exit_path, main, manifest, checksums, runs, done_order,
                    early, taken, walk_in, walk >>

\* ------------------------------------------------------------------ main
\* any(calculated_checksum != expected_checksum) over the ledger
LedgerDisagrees(ledger) == \E i \in 1..Len(ledger) : ledger[i][2] # ledger[i][3]

\* The listed files that os.walk(directory, followlinks=True) lists among the
\* files of a directory: those that open.
FilesPresent ==
    Cardinality({ f \in { inputs[i].file : i \in Tasks } : disk[f] \notin {"Missing", "Unreadable"} })

\* The listed files that os.walk may list or not: a path open() does not find
\* is absent, or is a symbolic link whose target is absent, which os.walk
\* lists; a path open() refuses is a file without read permission, which
\* os.walk lists, or a directory.
FilesPerhaps ==
    Cardinality({ f \in { inputs[i].file : i \in Tasks } : disk[f] \in {"Missing", "Unreadable"} })

\* Mutant of ExitStatus: main() forgets exit(1).
ExitStatus_AlwaysZero(there_was_an_error) == 0

\* Status of the process at the end of main().
ExitStatus(there_was_an_error) == IF there_was_an_error THEN 1 ELSE 0

\* main() after the run returned: in verify mode the scan of the ledger, the
\* two count checks and the final status; in generate mode the line count.
\* The recount of line 205 finds the listed files that open, any number of
\* those that do not, and the files the input list does not name.
Main ==
    /\ pc = "returned"
    /\ \E extra \in 0..MaxExtra : \E perhaps \in 0..FilesPerhaps :
         LET err == mode = "verify" /\ LedgerDisagrees(results)
             num_files_in_directory == FilesPresent + perhaps + extra
         IN  /\ main' = [ got_ledger         |-> mode = "verify",
                          reconciled         |-> mode = "verify",
                          ledger             |-> results,
                          there_was_an_error |-> err,
                          warn_manifest      |-> mode = "verify" /\ Len(inputs) # Len(results),
                          warn_directory     |-> mode = "verify"
                                                 /\ num_files_in_directory # Len(results) ]
             /\ exit_status' = ExitStatus(err)
             /\ exit_path' = IF err THEN "exit" ELSE "success"
    /\ pc' = "done"
    /\ UNCHANGED << mode, max_workers, keep_going, sigint, inputs, disk, ndx, si, ci,
                    cur, fut, queue, holding, executing, threads, idle, releasing, stray,
                    futures, snap, collected, compQ, results, outfile, worker_log,
                    leaving, interrupted, pending_at_abort, pending_at_interrupt,
                    manifest, checksums, runs, done_order, early, taken, walk_in, walk >>

\* ------------------------------------------------- reading the checksum file
\* main(), verify branch: checksums = read_checksum_file(file).  The
\* IndexError is not caught: the interpreter prints the traceback and exits
\* with status 1 before any pool exists.
ReadChecksumFile ==
    /\ pc = "read"
    /\ checksums' = [ read |-> TRUE,
                       raised |-> read_checksum_file(manifest).raised,
                       checksums |-> read_checksum_file(manifest).checksums ]
    /\ pc' = IF checksums'.raised THEN "done" ELSE "read_done"
    /\ exit_status' = IF checksums'.raised THEN 1 ELSE exit_status
    /\ exit_path' = IF checksums'.raised THEN "IndexError" ELSE exit_path
    /\ UNCHANGED << mode, max_workers, keep_going, sigint, inputs, disk, ndx, si, ci,
                    cur, fut, queue, holding, executing, threads, idle, releasing, stray,
                    futures, snap, collected, compQ, results, outfile, worker_log,
                    leaving, interrupted, pending_at_abort, pending_at_interrupt, main,
                    manifest, runs, done_order, early, taken, walk_in, walk >>

\* The entry of the checksum list that first names the path of entry i.
FirstNaming(cs, i) == Min({ j \in 1..Len(cs) : cs[j][2] = cs[i][2] })

\* The entry of the checksum list that first carries the digest of entry i.
FirstCarrying(cs, i) == Min({ j \in 1..Len(cs) : cs[j][1] = cs[i][1] })

\* The names of the digests, in the order in which a checksum list brings
\* them up.
DigestNames == << "d1", "d2", "d3", "d4", "d5", "d6", "d7", "d8" >>

\* How many different digests the first i entries of the list carry.
DigestCount(cs, i) == Cardinality({ FirstCarrying(cs, j) : j \in 1..i })

\* The tasks of a checksum list: the file of an entry is numbered by the first
\* entry that names its path, and entries expect the same digest exactly when
\* they carry the same digest.
TasksOf(cs) ==
    [ i \in 1..Len(cs) |->
        [ file     |-> FirstNaming(cs, i),
          expected |-> DigestNames[DigestCount(cs, FirstCarrying(cs, i))],
          md5ext   |-> FALSE ] ]

\* What hashing a file of the list may meet: a content with one of the
\* digests the list carries or with another one, or no content.
OutcomesOf(cs) ==
    { DigestNames[k] : k \in 1..(DigestCount(cs, Len(cs)) + 1) } \cup {"Missing"} \cup Raising

\* main(), line 195: verify_checksums_multithread(checksums, directory, ...)
\* is entered with the list read from the file; what hashing a listed file
\* will meet is whatever is under the directory.
VerifyStart ==
    /\ pc = "read_done"
    /\ inputs' = TasksOf(checksums.checksums)
    /\ disk' \in [ { inputs'[i].file : i \in 1..Len(inputs') } ->
                      OutcomesOf(checksums.checksums) ]
    /\ fut' = [ t \in 1..Len(inputs') |-> "none" ]
    /\ runs' = [ t \in 1..Len(inputs') |-> 0 ]
    /\ pc' = "next_batch"
    /\ UNCHANGED << mode, max_workers, keep_going, sigint, ndx, si, ci, cur, queue,
                    holding, executing, threads, idle, releasing, stray, futures, snap,
                    collected, compQ, results, outfile, worker_log, leaving, interrupted,
                    pending_at_abort, pending_at_interrupt, exit_status, exit_path, main,
                    manifest, checksums, done_order, early, taken, walk_in, walk >>

\* ------------------------------------------------------- batch_os_walk
\* os.walk hands out the next directory: the loop body prunes dirs in place,
\* and os.walk will descend into what is left of dirs, first entry first,
\* before it goes on with the directories it still had to visit.
WalkDir ==
    /\ pc = "walk"
    /\ walk.pos = "walking"
    /\ walk.files = << >>
    /\ walk.todo # << >>
    /\ LET d == Head(walk.todo) IN
       walk' = [ walk EXCEPT !.dir = d,
                             !.visited = @ \cup {d},
                             !.todo = Prune(Listing(d, TRUE)) \o Tail(walk.todo),
                             !.files = Listing(d, FALSE) ]
    /\ UNCHANGED << run_vars, hist_vars, manifest, checksums, walk_in >>

\* One turn of `for file in files`: the path is appended when it is accepted,
\* and the batch is yielded when that filled it.
WalkFile ==
    /\ pc = "walk"
    /\ walk.pos = "walking"
    /\ walk.files # << >>
    /\ LET file_path == PathOf(Head(walk.files))
           file_batch == IF Accepts(file_path) THEN Append(walk.file_batch, file_path)
                                               ELSE walk.file_batch
           yields == Accepts(file_path) /\ BatchFull(file_batch)
       IN walk' = [ walk EXCEPT !.files = Tail(@),
                                !.file_batch = file_batch,
                                !.yielded = IF yields THEN Append(@, file_batch) ELSE @,
                                !.pos = IF yields THEN "yielded" ELSE "walking" ]
    /\ UNCHANGED << run_vars, hist_vars, manifest, checksums, walk_in >>

\* The caller asks for the next batch: file_batch = [].
WalkResume ==
    /\ pc = "walk"
    /\ walk.pos = "yielded"
    /\ walk' = [ walk EXCEPT !.file_batch = << >>, !.pos = "walking" ]
    /\ UNCHANGED << run_vars, hist_vars, manifest, checksums, walk_in >>

\* os.walk is exhausted and files are left in the buffer: they are yielded
\* as the last batch, the generator waiting at that yield.
WalkLast ==
    /\ pc = "walk"
    /\ walk.pos = "walking"
    /\ walk.files = << >>
    /\ walk.todo = << >>
    /\ walk.file_batch # << >>
    /\ walk' = [ walk EXCEPT !.yielded = Append(@, walk.file_batch),
                             !.pos = "yielded_last" ]
    /\ UNCHANGED << run_vars, hist_vars, manifest, checksums, walk_in >>

\* The generator returns: os.walk is exhausted with an empty buffer, or the
\* caller asks for a batch after the last one.
WalkEnd ==
    /\ pc = "walk"
    /\ \/ /\ walk.pos = "walking"
          /\ walk.files = << >>
          /\ walk.todo = << >>
          /\ walk.file_batch = << >>
       \/ walk.pos = "yielded_last"
    /\ walk' = [ walk EXCEPT !.pos = "ended" ]
    /\ UNCHANGED << run_vars, hist_vars, manifest, checksums, walk_in >>

\* ---------------------------------------------------------- specification
Next ==
    \/ NextBatch
    \/ SubmitOne
    \/ AdjustThreadCount
    \/ RegisterThread
    \/ AppendFuture
    \/ BindFutures
    \/ StartCollect
    \/ \E t \in Tasks : Collect(t)
    \/ Body
    \/ Compare
    \/ WorkerTake
    \/ \E t \in Tasks : WorkerRun(t)
    \/ \E t \in Tasks : WorkerLog(t)
    \/ \E t \in Tasks : WorkerFinish(t)
    \/ WorkerRelease
    \/ Interrupt
    \/ ShutdownDone
    \/ Handler
    \/ HandlerExit
    \/ InterpreterExit
    \/ Main

Spec == Init /\ [][Next]_vars

\* A verify run before main() reads the checksum file, whose text is one of
\* texts.
InitRead(texts) ==
    /\ mode = "verify"
    /\ max_workers = 1
    /\ keep_going \in BOOLEAN
    /\ sigint = TRUE
    /\ inputs = << >>
    /\ disk = << >>
    /\ InitRunAt("read")
    /\ manifest \in texts
    /\ checksums = NotRead
    /\ walk_in = NoTree
    /\ walk = WalkStart

\* Verify runs up to the reading of a checksum file of at most MaxChars
\* characters.
InitParse == InitRead(SeqUpTo(Chars, MaxChars))

\* Two checksum files that name one path with different digests: `aa a`,
\* `a a`, and `a a`, `aa a`, `aaa a`.
SamePathManifests ==
    { << "a", "a", " ", "a", "\n", "a", " ", "a" >>,
      << "a", " ", "a", "\n", "a", "a", " ", "a", "\n", "a", "a", "a", " ", "a" >> }

\* Verify runs over a manifest that lists its first path twice.
InitDuplicate ==
    /\ mode = "verify"
    /\ max_workers \in 1..MaxWorkers
    /\ keep_going \in BOOLEAN
    /\ sigint = TRUE
    /\ \E n \in 2..MaxEntries : \E g \in FaultMaps(mode, 1..(n - 1)) :
          /\ inputs = [ i \in 1..n |->
                          [ file |-> IF i = 1 THEN 1 ELSE i - 1,
                            expected |-> "d1", md5ext |-> FALSE ] ]
          /\ disk = DiskOf(n - 1, g)
    /\ InitRun
    /\ InputsGiven

SpecDuplicate == (Init \/ InitDuplicate) /\ [][Next]_vars

\* Generate runs of one worker over a directory of a full batch of files, or
\* of one file more, none of which can be read: the pool gets a task for each,
\* and the first result collected ends the run.  The user does not interrupt
\* these runs.
InitUnreadable ==
    /\ mode = "generate"
    /\ max_workers = 1
    /\ keep_going = FALSE
    /\ sigint = FALSE
    /\ \E n \in { BatchSize(mode, 1), BatchSize(mode, 1) + 1 } :
          /\ inputs = InputsOf(mode, n, [ i \in 1..n |-> "Unreadable" ])
          /\ disk = DiskOf(n, [ i \in 1..n |-> "Unreadable" ])
    /\ InitRun
    /\ InputsGiven

SpecBatches == (Init \/ InitUnreadable) /\ [][Next]_vars

\* The runs of main(), verify runs from the reading of the checksum file on.
NextMain ==
    \/ ReadChecksumFile
    \/ VerifyStart
    \/ Next

\* main() at its branch on args.verify: a verify run before the checksum file
\* is read, or a generate run over at most MaxEntries paths.
InitMain ==
    \/ InitParse
    \/ InitRead(SamePathManifests)
    \/ InitSmall /\ mode = "generate" /\ InputsGiven

SpecMain == InitMain /\ [][NextMain]_vars

SpecParse == InitParse /\ [][ReadChecksumFile]_vars

\* batch_os_walk over every tree of at most MaxNodes entries, the root's own
\* path having a part that starts with '.' or not.
InitWalk ==
    /\ mode = "generate"
    /\ max_workers = 1
    /\ keep_going = FALSE
    /\ sigint = TRUE
    /\ inputs = << >>
    /\ disk = << >>
    /\ InitRunAt("walk")
    /\ manifest = << >>
    /\ checksums = NotRead
    /\ \E n \in 0..MaxNodes : \E t \in Trees(n) : \E h, skip \in BOOLEAN :
       \E size \in 1..MaxBatch :
          walk_in = [ nodes |-> t, root |-> << [ id |-> 0, dot |-> h ] >>,
                      batch_size |-> size, skip_hidden |-> skip ]
    /\ walk = WalkStart

NextWalk == WalkDir \/ WalkFile \/ WalkResume \/ WalkLast \/ WalkEnd

SpecWalk == InitWalk /\ [][NextWalk]_vars

\* ======================================================================
\* Properties
\* ======================================================================
\* Tasks handed to the pool whose result the orchestrator has not collected.
Unresolved == { t \in Tasks : fut[t] # "none" /\ t \notin collected }

\* The run is a verify run with keep_going set that meets no interrupt and
\* no task error.
QuietKeepGoing ==
    /\ mode = "verify"
    /\ keep_going
    /\ ~interrupted
    /\ \A t \in Tasks : disk[inputs[t].file] \notin Raising

\* The ledger l has exactly one entry for each manifest entry, and the entry
\* disagrees exactly when the file's content is not what the manifest expects.
OneEntryEach(l) ==
    /\ Len(l) = Len(inputs)
    /\ \A t \in Tasks :
         /\ Cardinality({ i \in 1..Len(l) : l[i][1] = inputs[t].file }) = 1
         /\ \A i \in 1..Len(l) :
              l[i][1] = inputs[t].file =>
                 /\ l[i][3] = inputs[t].expected
                 /\ (l[i][2] # l[i][3]) <=> (disk[inputs[t].file] # inputs[t].expected)

\* C1: a verify run with keep_going=true that meets no interrupt and no
\* unexpected task error is never stopped by a mismatch; when the process has
\* ended it has consumed every batch, left the pool normally and handed main()
\* a ledger with exactly one entry per manifest entry, an entry disagreeing
\* exactly for the entries whose file content does not match.
C1_KeepGoingLedgerComplete ==
    QuietKeepGoing =>
       /\ leaving \in {"none", "normal"}
       /\ Len(results) <= Len(inputs)
       /\ pc = "done" =>
            /\ leaving = "normal"
            /\ ndx = Len(inputs)
            /\ collected = Tasks
            /\ main.got_ledger
            /\ main.ledger = results
            /\ OneEntryEach(main.ledger)

\* C1 witness: such a run has ended over three or more entries with a
\* mismatching and a matching entry, the ledger not in manifest order.
C1_Witness ==
    /\ QuietKeepGoing
    /\ pc = "done"
    /\ Len(inputs) >= 3
    /\ \E i, j \in 1..Len(main.ledger) :
         /\ main.ledger[i][2] # main.ledger[i][3]
         /\ main.ledger[j][2] = main.ledger[j][3]
    /\ \E i \in 1..Len(main.ledger) : main.ledger[i][1] # inputs[i].file

\* C2: in a verify run with keep_going=false, the collecting loop appends
\* the result it holds to the ledger before it compares; with a disagreeing
\* entry in the ledger the loop goes nowhere but out of the run, by the
\* exception of the comparison or by an interrupt; the run is left on a
\* mismatch only with the disagreeing entry last in the ledger; once the
\* ledger holds a disagreeing entry no step appends to it again; and the
\* ledger is never longer than the manifest.
C2_FailFastStopsLedger ==
    [][ (mode = "verify" /\ ~keep_going) =>
          /\ LedgerDisagrees(results) => results' = results
          /\ Len(results') <= Len(inputs)
          /\ (pc = "body" /\ pc' = "compare") =>
                results' = Append(results, << ResultOf(cur).file_path, ResultOf(cur).checksum,
                                              ResultOf(cur).pass_through >>)
          /\ (pc = "compare" /\ LedgerDisagrees(results) /\ pc' # pc) =>
                (pc' = "shutdown" /\ leaving' \in {"mismatch", "interrupt"})
          /\ (leaving = "none" /\ leaving' = "mismatch") =>
                /\ results' = results
                /\ results # << >>
                /\ results[Len(results)][2] # results[Len(results)][3]
                /\ pc' = "shutdown" ]_vars

\* C2 witness: the run has stopped on a mismatch while another task of the
\* batch has finished without being collected and a third is still running.
C2_Witness ==
    /\ mode = "verify"
    /\ ~keep_going
    /\ leaving = "mismatch"
    /\ \E i \in 1..Len(results) : results[i][2] # results[i][3]
    /\ \E t \in futures.fs : Done(t) /\ t \notin collected
    /\ executing # {}

\* C3 (as claimed): after a fail-fast abort on a mismatch the caller holds
\* the ledger with the entries processed before the abort, the mismatching
\* one included, and has reconciled its length against the two counts.
C3_AbortHandsLedgerToCaller ==
    (pc = "done" /\ mode = "verify" /\ ~keep_going /\ leaving = "mismatch") =>
        /\ main.got_ledger
        /\ main.ledger = results
        /\ main.reconciled

\* C4 (as claimed): after a fail-fast abort on a mismatch no task that had not
\* started at the moment of the abort is run: the queued tasks of the batch
\* never start and no task of a later batch is submitted.
C4_AbortDiscardsUnstarted ==
    (mode = "verify" /\ ~keep_going /\ ~interrupted /\ leaving = "mismatch") =>
        /\ \A t \in pending_at_abort : fut[t] \in {"pending", "cancelled"}
        /\ \A t \in Tasks : t > ChunkEnd(ndx, batch_size, Len(inputs)) => fut[t] = "none"

\* C5 (as claimed): after an interrupt no task that had not started when it
\* arrived ever runs, and the process ends with a non-zero status through the
\* cancellation path (sys.exit(1)), every such task cancelled.
C5_InterruptCancelsUnstarted ==
    interrupted =>
        /\ \A t \in pending_at_interrupt : fut[t] \in {"pending", "cancelled"}
        /\ pc = "done" =>
             /\ exit_status = 1
             /\ exit_path = "sys.exit"
             /\ \A t \in pending_at_interrupt : fut[t] = "cancelled"

\* C6: the tasks submitted and not yet collected never number more than
\* worker_count x 20 in a generate run and worker_count x 4 in a verify run.
C6_BatchSizeInvariant ==
    Cardinality(Unresolved) <=
        max_workers * (IF mode = "generate" THEN GenMultiplier ELSE VerMultiplier)

\* C6 witness: a generate run holds a full batch of twenty unresolved tasks
\* and has an entry left for a further batch.
C6_Witness ==
    /\ mode = "generate"
    /\ Cardinality(Unresolved) = batch_size
    /\ Len(inputs) > batch_size

\* The same in a verify run: four unresolved tasks and a fifth entry.
C6_WitnessVerify ==
    /\ mode = "verify"
    /\ Cardinality(Unresolved) = batch_size
    /\ Len(inputs) > batch_size

\* C7: never more than worker_count tasks are executing, the tasks a worker
\* has taken off the queue and not yet started counted with them; the others
\* wait in the queue.
C7_AtMostWorkerCountExecuting ==
    /\ Cardinality(executing) <= max_workers
    /\ Cardinality(holding) + Cardinality(executing) + releasing <= threads
    /\ threads <= max_workers
    /\ executing = { t \in Tasks : fut[t] = "running" }
    /\ \A t \in Pending : t \in holding \/ \E i \in 1..Len(queue) : queue[i] = t

\* C7 witness: every worker is busy and submitted tasks are waiting.
C7_Witness ==
    /\ max_workers = 2
    /\ Cardinality(executing) = max_workers
    /\ queue # << >>

\* C8 (as claimed): in generate mode no line is written for a file that had
\* vanished: every line carries a present digest, and there are as many lines
\* as collected tasks with a present digest.
C8_NoLineForVanishedFile ==
    mode = "generate" =>
        /\ \A i \in 1..Len(outfile) : outfile[i][1] # NoneDigest
        /\ Len(outfile) =
             Cardinality({ t \in collected : fut[t] = "finished"
                                              /\ disk[inputs[t].file] # "Missing" })

\* C9 (as claimed): a file that cannot be found never aborts the run, in
\* either mode and for either value of keep_going: with missing files the only
\* fault and no interrupt, the run goes on through every batch.
C9_NotFoundNeverAborts ==
    (/\ ~interrupted
     /\ \A t \in Tasks : disk[inputs[t].file] \in {inputs[t].expected, "d1", "Missing"}) =>
        /\ leaving \in {"none", "normal"}
        /\ pc = "done" => collected = { t \in Tasks : Submits(t) }

IsCommentLine(line) == Split(line) # << >> /\ Head(Split(line)[1]) = "#"

\* The lines of the manifest that the format says are entries (not the
\* lines the code keeps): those that are not comment lines, in order.
EntryLines == SelectSeq(ReadLines(manifest), LAMBDA line : ~IsCommentLine(line))

\* C11: a manifest with a non-comment line that does not split into exactly
\* two tokens (three tokens, one token, a blank line) is rejected while it is
\* read, and no entry is made of it.
C11_MalformedLineRejected ==
    (checksums.read /\ \E i \in 1..Len(EntryLines) : Len(Split(EntryLines[i])) # 2)
        => (checksums.raised /\ checksums.checksums = << >> /\ pc = "done")

\* C12: read_checksum_file skips every comment line, also one that follows a
\* comment line and one with leading white space, and returns exactly the
\* (digest, path) pairs of the other lines in input order.
C12_CommentsSkipped ==
    (checksums.read /\ \A i \in 1..Len(EntryLines) : Len(Split(EntryLines[i])) = 2)
        => /\ ~checksums.raised
           /\ checksums.checksums =
                [ i \in 1..Len(EntryLines) |->
                    << Split(EntryLines[i])[1], Split(EntryLines[i])[2] >> ]

\* ------------------------------------------------------------- the walk
\* The files of the tree.
Files == { i \in Nodes : ~walk_in.nodes[i].dir }

\* Hidden below the root, as the claims mean it (not the code's is_hidden,
\* which also looks at the root's own path): entry i, or a directory between
\* the root and i, has a name that starts with '.'.
RECURSIVE HiddenBelowRoot(_)
HiddenBelowRoot(i) ==
    i # 0 /\ (walk_in.nodes[i].dot \/ HiddenBelowRoot(walk_in.nodes[i].parent))

\* The places of the yielded batches at which file i stands.
YieldedAt(i) ==
    { kj \in (1..Len(walk.yielded)) \X (1..walk_in.batch_size) :
        /\ kj[2] <= Len(walk.yielded[kj[1]])
        /\ walk.yielded[kj[1]][kj[2]] = PathOf(i) }

\* File i is in the buffer batch_os_walk holds.
Buffered(i) == \E j \in 1..Len(walk.file_batch) : walk.file_batch[j] = PathOf(i)

\* C13: with skip_hidden a directory whose name starts with '.' is never
\* visited, and no file is buffered or yielded whose name starts with '.' or
\* that lies below such a directory; without skip_hidden every file of the
\* tree has been yielded when the walk ends.
C13_HiddenSkipped ==
    /\ walk_in.skip_hidden =>
         /\ \A d \in walk.visited : ~HiddenBelowRoot(d)
         /\ \A i \in Files : HiddenBelowRoot(i) => (YieldedAt(i) = {} /\ ~Buffered(i))
    /\ (~walk_in.skip_hidden /\ walk.pos = "ended") =>
         \A i \in Files : YieldedAt(i) # {}

\* C13 witness: a walk with skip_hidden has ended that yielded a visible file
\* and passed by a hidden directory holding a file.
C13_Witness ==
    /\ walk.pos = "ended"
    /\ walk_in.skip_hidden
    /\ \E i \in Files : YieldedAt(i) # {}
    /\ \E i \in Files : /\ walk_in.nodes[i].parent # 0
                        /\ walk_in.nodes[walk_in.nodes[i].parent].dot
                        /\ ~walk_in.nodes[i].dot

\* C15: every yielded batch is non-empty and has at most batch_size paths,
\* every batch but the last has exactly batch_size, the buffer never holds
\* more than batch_size paths, and at the end of the walk every accepted file
\* stands in exactly one place of the batches and nothing else does.
C15_BatchesOfBatchSize ==
    /\ Len(walk.file_batch) <= walk_in.batch_size
    /\ \A k \in 1..Len(walk.yielded) :
         /\ walk.yielded[k] # << >>
         /\ Len(walk.yielded[k]) <= walk_in.batch_size
         /\ k < Len(walk.yielded) => Len(walk.yielded[k]) = walk_in.batch_size
    /\ walk.pos = "ended" =>
         /\ \A i \in Files :
              Cardinality(YieldedAt(i)) = (IF Accepts(PathOf(i)) THEN 1 ELSE 0)
         /\ \A k \in 1..Len(walk.yielded) : \A j \in 1..Len(walk.yielded[k]) :
              \E i \in Files : walk.yielded[k][j] = PathOf(i)

\* C15 witness: a walk has ended with a full batch followed by a shorter
\* last batch.
C15_Witness ==
    /\ walk.pos = "ended"
    /\ walk_in.batch_size = 2
    /\ Len(walk.yielded) = 2
    /\ Len(walk.yielded[1]) = 2
    /\ Len(walk.yielded[2]) = 1

\* C20: with skip_hidden, when the walk has ended every file whose path
\* below the root has no part starting with '.' stands in exactly one place
\* of the yielded batches, whatever the root's own path is.
C20_VisibleFilesComplete ==
    (walk_in.skip_hidden /\ walk.pos = "ended") =>
        \A i \in Files : ~HiddenBelowRoot(i) => Cardinality(YieldedAt(i)) = 1

\* ------------------------------------------------------ the generate run
\* The places of the output at which a line for the file of entry t stands.
LinesOf(t) == { i \in 1..Len(outfile) : outfile[i][2] = inputs[t].file }

\* C14: in generate mode a path ending in .md5 or .md5sum is never handed
\* to the pool and has no output line, while every other path the submit loop
\* has passed is handed to the pool, and has its output line once its batch
\* is collected.
C14_ManifestFilesSkipped ==
    mode = "generate" =>
        \A t \in Tasks :
            /\ inputs[t].md5ext => (fut[t] = "none" /\ LinesOf(t) = {})
            /\ (~inputs[t].md5ext
                 /\ (t <= ndx \/ (pc \in {"submit", "adjust", "register", "append", "collect",
                                           "body"} /\ t <= ndx + si)))
                  => fut[t] # "none"
            /\ (~inputs[t].md5ext /\ t <= ndx) => Cardinality(LinesOf(t)) = 1

\* C14 witness: a generate run has ended in which a batch held a manifest
\* file between two other files, and these two have their lines.
C14_Witness ==
    /\ mode = "generate"
    /\ pc = "done"
    /\ exit_status = 0
    /\ Len(inputs) = 3
    /\ inputs[2].md5ext
    /\ LinesOf(1) # {} /\ LinesOf(3) # {}

\* ------------------------------------------------------------- the sink
\* A step of a worker thread.
WorkerStep ==
    \/ holding' # holding
    \/ executing' # executing
    \/ releasing' # releasing
    \/ worker_log' # worker_log

\* The tasks a worker step is about: the one it starts or the one it ends.
OwnTasks == (holding \ holding') \cup (executing \ executing')

\* The sink is written by the collecting loop alone.
SinkWrittenByLoop ==
    (results' # results \/ outfile' # outfile)
        => /\ pc = "body"
           /\ fut' = fut
           /\ holding' = holding
           /\ executing' = executing
           /\ queue' = queue
           /\ worker_log' = worker_log

\* C16 as stated: the ledger and the output are appended to only by a step
\* of the collecting loop, which changes no future and no worker; a step of a
\* worker leaves both alone, writes nothing that the workers share, and
\* changes no future but that of its own task.
C16_OnlyOrchestratorWritesSink ==
    [][ /\ SinkWrittenByLoop
        /\ WorkerStep
            => /\ results' = results
               /\ outfile' = outfile
               /\ worker_log' = worker_log
               /\ \A u \in Tasks : fut'[u] # fut[u] => u \in OwnTasks
      ]_vars

\* C16 amended: the ledger and the output are appended to only by a step of
\* the collecting loop, which changes no future and no worker; a step of a
\* worker leaves both alone and changes no future but that of its own task;
\* what a worker writes besides is a record for the logger the threads share,
\* one for the task it is executing: DEBUG for a file it has opened, WARNING
\* for a file that is not there.
C16_WorkersWriteLogOnly ==
    [][ /\ SinkWrittenByLoop
        /\ WorkerStep
            => /\ results' = results
               /\ outfile' = outfile
               /\ \A u \in Tasks : fut'[u] # fut[u] => u \in OwnTasks
               /\ worker_log \subseteq worker_log'
               /\ \A r \in worker_log' \ worker_log :
                    /\ r[2] \in executing
                    /\ fut' = fut
                    /\ r[1] = (IF disk[inputs[r[2]].file] = "Missing" THEN "WARNING" ELSE "DEBUG")
      ]_vars

\* C16 witness: the sink holds an entry while one worker has delivered a
\* result not yet collected and another, having written its log record, is
\* still hashing.
C16_Witness ==
    /\ Len(results) + Len(outfile) > 0
    /\ \E t \in executing : Logged(t)
    /\ \E t \in Tasks : fut[t] = "finished" /\ t \notin collected

\* The lines of the output, as a set.
Lines == { outfile[i] : i \in 1..Len(outfile) }

\* C17 (as claimed): a generate run over an unmodified directory that no
\* interrupt ends prints a set of lines that depends on the directory alone,
\* not on the number of workers nor on the order in which they finish: one
\* line for every file that is not a manifest and that can be hashed, with the
\* file's path and what the hasher returns for it.
C17_SameLinesInEveryRun ==
    (mode = "generate" /\ pc = "done" /\ ~interrupted) =>
        Lines = { << ResultOf(t).checksum, inputs[t].file >> :
                    t \in { u \in Tasks : ~inputs[u].md5ext
                                          /\ disk[inputs[u].file] \notin Raising } }

\* C17, two runs over the same directory (a file that can be read before one
\* that cannot): one ends with the line of the first file printed, the other
\* with no line at all.
C17_RunWithLine ==
    /\ mode = "generate" /\ pc = "done" /\ ~interrupted
    /\ Len(inputs) = 2
    /\ disk[1] = "d1" /\ disk[2] = "Unreadable"
    /\ Lines = { << "d1", 1 >> }

C17_RunWithoutLine ==
    /\ mode = "generate" /\ pc = "done" /\ ~interrupted
    /\ Len(inputs) = 2
    /\ disk[1] = "d1" /\ disk[2] = "Unreadable"
    /\ Lines = {}

\* C17 for a directory whose files can all be read: the run prints, for every
\* file that is not a manifest, one line with the file's path and the digest
\* of its content, and no other line.
C17_SameLinesWhateverTheOrder ==
    ( /\ mode = "generate"
      /\ pc = "done"
      /\ ~interrupted
      /\ \A t \in Tasks : disk[inputs[t].file] \in Digests )
    => /\ Lines = { << disk[inputs[t].file], inputs[t].file >> :
                      t \in { u \in Tasks : ~inputs[u].md5ext } }
       /\ Len(outfile) = Cardinality({ u \in Tasks : ~inputs[u].md5ext })

\* Such a run with two workers has ended whose lines stand in another order
\* than the files were enumerated in.
C17_Witness ==
    /\ mode = "generate"
    /\ pc = "done"
    /\ ~interrupted
    /\ max_workers = 2
    /\ Len(outfile) = 3
    /\ \A t \in Tasks : disk[inputs[t].file] \in Digests
    /\ outfile[1][2] > outfile[2][2]

\* ---------------------------------------------------------- the batches
\* The batch entry t falls in.
BatchOf(t) == (t - 1) \div batch_size

\* The place of t in a sequence that holds it once, 0 when it does not.
PlaceIn(seq, t) ==
    IF \E i \in 1..Len(seq) : seq[i] = t
    THEN CHOOSE i \in 1..Len(seq) : seq[i] = t
    ELSE 0

\* The tasks whose results the orchestrator has collected.
Taken == { taken[i] : i \in 1..Len(taken) }

\* Every task of a batch is submitted before a result of that batch is
\* collected, and no task of a batch is submitted before every result of the
\* batches before it has been collected.
OneBatchAtATime ==
    LET collecting == { BatchOf(t) : t \in Taken }
        submitting == { BatchOf(u) : u \in { v \in Tasks : fut[v] # "none" } }
    IN /\ \A u \in Tasks : (BatchOf(u) \in collecting /\ Submits(u)) => fut[u] # "none"
       /\ \A t \in Tasks :
            (Submits(t) /\ \E b \in submitting : BatchOf(t) < b) => t \in Taken

\* C18 as stated: batches are processed one after another, and the results
\* are collected in the order in which the tasks completed.
C18_CollectedInCompletionOrder ==
    LET completed == [ i \in 1..Len(taken) |-> PlaceIn(done_order, taken[i]) ]
    IN /\ OneBatchAtATime
       /\ \A i \in 1..Len(taken) : completed[i] # 0
       /\ \A i \in 1..(Len(taken) - 1) : completed[i] < completed[i + 1]

\* C18 amended: batches are processed one after another; a result is
\* collected only after its task completed; the results of the tasks that had
\* completed when the collecting of their batch started come first, in no
\* particular order, and the others follow in completion order.
C18_CollectedAfterCompletion ==
    LET completed == [ i \in 1..Len(taken) |-> PlaceIn(done_order, taken[i]) ]
        late == { i \in 1..Len(taken) : taken[i] \notin early }
    IN /\ OneBatchAtATime
       /\ \A i \in 1..Len(taken) : completed[i] # 0
       /\ \A i \in late : \A j \in 1..Len(taken) :
            /\ j < i => completed[j] < completed[i]
            /\ (i < j /\ BatchOf(taken[i]) = BatchOf(taken[j])) => taken[j] \notin early

\* C18 witness: two results were collected against the order in which their
\* tasks completed, and a third, completed later, after them.
C18_Witness ==
    /\ Len(taken) = 3
    /\ PlaceIn(done_order, taken[2]) < PlaceIn(done_order, taken[1])
    /\ taken[3] \notin early

\* ------------------------------------------------------------ the tasks
\* How often t stands in seq.
Times(seq, t) == Cardinality({ i \in 1..Len(seq) : seq[i] = t })

\* C19: a submitted task is taken by a worker at most once, its call ends at
\* most once, and its result is collected at most once; a task not submitted
\* is never run; and when the run has ended without abort or interrupt every
\* submitted task was run once and its result collected once, also when the
\* manifest lists a path twice.
C19_EachTaskOnce ==
    /\ \A t \in Tasks :
         /\ runs[t] <= 1
         /\ Times(done_order, t) <= runs[t]
         /\ Times(taken, t) <= Times(done_order, t)
         /\ fut[t] = "none" => runs[t] = 0
    /\ Cardinality(executing) = Cardinality({ t \in Tasks : runs[t] = 1 }) - Len(done_order)
    /\ (pc = "done" /\ leaving = "normal" /\ ~interrupted) =>
         \A t \in Tasks :
            Submits(t) => (runs[t] = 1 /\ Times(done_order, t) = 1 /\ Times(taken, t) = 1)

\* C19 witness: a verify run over a manifest that lists a path twice has
\* ended normally, with a ledger entry for each of the two lines.
C19_Witness ==
    /\ pc = "done"
    /\ leaving = "normal"
    /\ ~interrupted
    /\ mode = "verify"
    /\ Len(inputs) = 3
    /\ inputs[1].file = inputs[2].file
    /\ Times(taken, 1) = 1 /\ Times(taken, 2) = 1
    /\ Len(results) = 3


====
